---- MODULE Spec2Model ----
(***************************************************************************)
(* Model of GreatExpectationsValidator (lib/great_expectations_validator.py)*)
(* and of the command-line run in main.py.                                 *)
(*                                                                         *)
(* A Python dict is a sequence of [key, value] entries in insertion order, *)
(* config is the descriptor list as its caller wrote it and expectations   *)
(* the same list object as the calls have left it,                         *)
(* a DataFrame is its ordered column list and its ordered rows, and the    *)
(* outcome of a call is either a returned value or a raised exception.     *)
(***************************************************************************)
EXTENDS Integers, Sequences, FiniteSets, TLC

VARIABLES pc, caller, source_data, target_data, config, expectations, executed,
          standard_results, primary_key_results, row_comparison_results,
          custom_results, raised, exit_code

vars == <<pc, caller, source_data, target_data, config, expectations, executed,
          standard_results, primary_key_results, row_comparison_results,
          custom_results, raised, exit_code>>

(***************************************************************************)
(* Bounds of the explored inputs.                                          *)
(***************************************************************************)
MaxRows == 2

MaxExpectations == 3

Keys == {1, 2}

Values == {100, 200}

ColumnLists == {<<"id", "value">>, <<"id", "value", "dude">>}

(***************************************************************************)
(* Python dicts and call outcomes.                                         *)
(***************************************************************************)
ToSet(s) == {s[i] : i \in DOMAIN s}

Has(d, k) == \E i \in DOMAIN d : d[i].key = k

Get(d, k) == d[CHOOSE i \in DOMAIN d : d[i].key = k].value

Put(d, k, v) ==
    IF Has(d, k)
    THEN [i \in DOMAIN d |-> IF d[i].key = k THEN [key |-> k, value |-> v] ELSE d[i]]
    ELSE Append(d, [key |-> k, value |-> v])

DictKeys(d) == {d[i].key : i \in DOMAIN d}

RECURSIVE Update(_, _)
Update(d, other) ==
    IF other = <<>> THEN d
    ELSE Update(Put(d, Head(other).key, Head(other).value), Tail(other))

Returned(v) == [raised |-> "none", value |-> v]

Raised(e) == [raised |-> e]

NotCalled == [raised |-> "not_called"]

(***************************************************************************)
(* pandas DataFrames.                                                      *)
(***************************************************************************)
SeqsUpTo(S, n) == UNION {[1..k -> S] : k \in 0..n}

RowsOf(cl) ==
    {r \in [ToSet(cl) -> Keys \cup Values] :
        \A c \in ToSet(cl) : IF c = "id" THEN r[c] \in Keys ELSE r[c] \in Values}

DataFrames ==
    UNION {{[columns |-> cl, rows |-> rs] : rs \in SeqsUpTo(RowsOf(cl), MaxRows)} :
           cl \in ColumnLists}

NoFrame == [columns |-> <<>>, rows |-> <<>>]

\* df[column].tolist()
ColumnValues(df, column) == [i \in 1..Len(df.rows) |-> df.rows[i][column]]

RECURSIVE FilterByMask(_, _)
FilterByMask(s, mask) ==
    IF s = <<>> THEN <<>>
    ELSE (IF Head(mask) THEN <<Head(s)>> ELSE <<>>) \o FilterByMask(Tail(s), Tail(mask))

\* df.duplicated(subset=[column], keep="first"): only the later occurrences.
DuplicatedKeepFirst(df, column) ==
    [i \in 1..Len(df.rows) |->
        \E j \in 1..Len(df.rows) : j < i /\ df.rows[j][column] = df.rows[i][column]]

\* df.duplicated(subset=[column], keep=False): every row whose key is repeated.
Duplicated(df, column) ==
    [i \in 1..Len(df.rows) |->
        \E j \in 1..Len(df.rows) : j # i /\ df.rows[j][column] = df.rows[i][column]]

\* df[mask]
BoolIndex(df, mask) == [columns |-> df.columns, rows |-> FilterByMask(df.rows, mask)]

\* df.set_index(column, inplace=False)
SetIndex(df, column) ==
    [index |-> ColumnValues(df, column),
     columns |-> SelectSeq(df.columns, LAMBDA c : c # column),
     rows |-> df.rows]

(***************************************************************************)
(* compare_primary_keys_between_datasets                                   *)
(***************************************************************************)
PK_CHECK == "custom_expect_primary_keys_to_match"

ROW_CHECK == "custom_expect_row_values_to_match"

compare_primary_keys_between_datasets(source, target, primary_key) ==
    LET source_duplicates == BoolIndex(source, Duplicated(source, primary_key))
        target_duplicates == BoolIndex(target, Duplicated(target, primary_key))
        source_keys == ToSet(ColumnValues(source, primary_key))
        target_keys == ToSet(ColumnValues(target, primary_key))
        missing_in_target == source_keys \ target_keys
        missing_in_source == target_keys \ source_keys
        results == <<[key |-> PK_CHECK, value |-> <<[key |-> "success", value |-> TRUE]>>]>>
    IN  IF source_duplicates.rows # <<>> \/ target_duplicates.rows # <<>>
        THEN Returned(Put(results, PK_CHECK,
                 Put(Put(Get(results, PK_CHECK), "success", FALSE), "detailed_errors",
                     <<[key |-> "duplicate_keys_in_source",
                        value |-> ColumnValues(source_duplicates, primary_key)],
                       [key |-> "duplicate_keys_in_target",
                        value |-> ColumnValues(target_duplicates, primary_key)]>>)))
        ELSE IF missing_in_target # {} /\ missing_in_source # {}
             THEN \* results has no ROW_CHECK entry: the subscript raises
                  IF ~Has(results, ROW_CHECK) THEN Raised("KeyError")
                  ELSE Returned(Put(Put(results, PK_CHECK,
                                        Put(Get(results, PK_CHECK), "success", FALSE)),
                                    ROW_CHECK,
                                    Put(Get(results, ROW_CHECK), "detailed_errors",
                                        <<[key |-> "missing_in_target", value |-> missing_in_target],
                                          [key |-> "missing_in_source", value |-> missing_in_source]>>)))
             ELSE Returned(results)

(***************************************************************************)
(* compare_row_values_between_datasets                                     *)
(***************************************************************************)
\* series != series: pandas compares only identically-labelled Series.
SeriesNotEqual(source, target, column) ==
    IF source.index # target.index THEN Raised("ValueError")
    ELSE Returned([i \in 1..Len(source.rows) |->
                      source.rows[i][column] # target.rows[i][column]])

RECURSIVE CompareColumns(_, _, _, _)
CompareColumns(source, target, i, results) ==
    IF i > Len(source.columns) THEN Returned(results)
    ELSE LET column == source.columns[i]
         IN  IF column \notin ToSet(target.columns)
             THEN CompareColumns(source, target, i + 1, results)
             ELSE LET diff_rows == SeriesNotEqual(source, target, column)
                  IN  IF diff_rows.raised # "none" THEN Raised(diff_rows.raised)
                      ELSE IF \E k \in DOMAIN diff_rows.value : diff_rows.value[k]
                      THEN LET emptied == Put(Get(results, ROW_CHECK), "detailed_errors", <<>>)
                               failed == Put(emptied, "success", FALSE)
                               entry ==
                                 <<[key |-> "row_indices",
                                    value |-> FilterByMask(source.index, diff_rows.value)],
                                   [key |-> "source_data_values",
                                    value |-> FilterByMask(
                                        [k \in 1..Len(source.rows) |-> source.rows[k][column]],
                                        diff_rows.value)],
                                   [key |-> "target_data_values",
                                    value |-> FilterByMask(
                                        [k \in 1..Len(target.rows) |-> target.rows[k][column]],
                                        diff_rows.value)]>>
                               recorded == Put(failed, "detailed_errors",
                                               Put(Get(failed, "detailed_errors"), column, entry))
                           IN  CompareColumns(source, target, i + 1,
                                              Put(results, ROW_CHECK, recorded))
                      ELSE CompareColumns(source, target, i + 1, results)

compare_row_values_between_datasets(source, target, primary_key) ==
    CompareColumns(SetIndex(source, primary_key), SetIndex(target, primary_key), 1,
                   <<[key |-> ROW_CHECK, value |-> <<[key |-> "success", value |-> TRUE]>>]>>)

(***************************************************************************)
(* Check descriptors and apply_standard_expectations_to_datasets           *)
(***************************************************************************)
SCHEMA_CHECK == "expect_table_columns_to_match_ordered_list"

ROW_COUNT_CHECK == "expect_table_row_count_to_equal"

UNSUPPORTED_CHECK == "expect_column_values_to_be_unique"

\* Python values, tagged by type: values of different types never compare equal.
PyStr(s) == [str |-> s]

PyList(l) == [list |-> l]

PyInt(n) == [int |-> n]

PyBool(b) == [bool |-> b]

PyEq(a, b) == a = b

Expectation(expectation_type, kwargs) ==
    <<[key |-> "expectation_type", value |-> expectation_type],
      [key |-> "kwargs", value |-> kwargs]>>

supported_standard_expectations == {SCHEMA_CHECK, ROW_COUNT_CHECK}

\* expectation_type.startswith("custom_")
StartsWithCustom(expectation_type) == expectation_type \in {PK_CHECK, ROW_CHECK}

\* Mutant of IsSupported: every non-custom name is dispatched.
IsSupportedAny(expectation_type) == TRUE

IsSupported(expectation_type) == expectation_type \in supported_standard_expectations

\* getattr(validator, expectation_type)(**kwargs).success, the validator holding
\* the source dataframe.
GxSuccess(validator, expectation_type, kwargs) ==
    IF expectation_type = SCHEMA_CHECK
    THEN Has(kwargs, "column_list")
         /\ PyEq(Get(kwargs, "column_list"), PyList(validator.columns))
    ELSE IF expectation_type = ROW_COUNT_CHECK
    THEN Has(kwargs, "value")
         /\ PyEq(Get(kwargs, "value"), PyInt(Len(validator.rows)))
    ELSE FALSE

\* The "source" sentinels are replaced in the descriptor's own kwargs dict.
ResolveKwargs(expectation_type, kwargs, target) ==
    LET k1 == IF /\ expectation_type = SCHEMA_CHECK
                 /\ Has(kwargs, "column_list")
                 /\ PyEq(Get(kwargs, "column_list"), PyStr("source"))
              THEN Put(kwargs, "column_list", PyList(target.columns))
              ELSE kwargs
    IN  IF /\ expectation_type = ROW_COUNT_CHECK
           /\ Has(k1, "value")
           /\ PyEq(Get(k1, "value"), PyStr("source"))
        THEN Put(k1, "value", PyInt(Len(target.rows)))
        ELSE k1

\* Mutant of StandardResult: a failed row-count check carries no payload.
StandardResultNoPayload(validator, expectation_type, success, target) ==
    IF success THEN <<[key |-> "success", value |-> TRUE]>>
    ELSE IF expectation_type = SCHEMA_CHECK
    THEN <<[key |-> "success", value |-> FALSE],
           [key |-> "detailed_errors", value |->
              <<[key |-> "missing_in_target_data",
                 value |-> ToSet(validator.columns) \ ToSet(target.columns)],
                [key |-> "missing_in_source_data",
                 value |-> ToSet(target.columns) \ ToSet(validator.columns)]>>]>>
    ELSE <<[key |-> "success", value |-> FALSE]>>

\* The entry stored for one dispatched check; list(set - set) has no fixed
\* order, so the two column differences are kept as sets.
StandardResult(validator, expectation_type, success, target) ==
    IF success THEN <<[key |-> "success", value |-> TRUE]>>
    ELSE IF expectation_type = SCHEMA_CHECK
    THEN <<[key |-> "success", value |-> FALSE],
           [key |-> "detailed_errors", value |->
              <<[key |-> "missing_in_target_data",
                 value |-> ToSet(validator.columns) \ ToSet(target.columns)],
                [key |-> "missing_in_source_data",
                 value |-> ToSet(target.columns) \ ToSet(validator.columns)]>>]>>
    ELSE IF expectation_type = ROW_COUNT_CHECK
    THEN <<[key |-> "success", value |-> FALSE],
           [key |-> "detailed_errors", value |->
              <<[key |-> "source_data_row_count", value |-> Len(validator.rows)],
                [key |-> "target_data_row_count", value |-> Len(target.rows)]>>]>>
    ELSE <<[key |-> "success", value |-> FALSE],
           [key |-> "result", value |-> "gx_result"]>>

RECURSIVE StandardLoop(_, _, _, _, _, _)
StandardLoop(validator, exps, target, i, results, done) ==
    IF i > Len(exps)
    THEN [results |-> results, expectations |-> exps, executed |-> done]
    ELSE LET expectation == exps[i]
             expectation_type == Get(expectation, "expectation_type")
         IN  IF StartsWithCustom(expectation_type)
             THEN StandardLoop(validator, exps, target, i + 1, results, done)
             ELSE IF ~IsSupported(expectation_type)
             THEN StandardLoop(validator, exps, target, i + 1, results, done)
             ELSE LET kwargs == ResolveKwargs(expectation_type,
                                              Get(expectation, "kwargs"), target)
                      success == GxSuccess(validator, expectation_type, kwargs)
                  IN  StandardLoop(validator,
                                   [exps EXCEPT ![i] = Put(expectation, "kwargs", kwargs)],
                                   target, i + 1,
                                   Put(results, expectation_type,
                                       StandardResult(validator, expectation_type,
                                                      success, target)),
                                   Append(done, expectation_type))

apply_standard_expectations_to_datasets(validator, exps, target) ==
    StandardLoop(validator, exps, target, 1, <<>>, <<>>)

(***************************************************************************)
(* all_expectations_successful: all() over results.values(), in insertion  *)
(* order, stopping at the first false; result["success"] raises KeyError   *)
(* on a value without that key.                                            *)
(***************************************************************************)
RECURSIVE all_expectations_successful(_)
all_expectations_successful(results) ==
    IF results = <<>> THEN Returned(TRUE)
    ELSE LET result == Head(results).value
         IN  IF ~Has(result, "success") THEN Raised("KeyError")
             ELSE IF ~Get(result, "success") THEN Returned(FALSE)
             ELSE all_expectations_successful(Tail(results))

(***************************************************************************)
(* Inputs.                                                                 *)
(***************************************************************************)
PRIMARY_KEY == "id"

\* config["expectations"] of main.py
Config ==
    <<Expectation(SCHEMA_CHECK, <<[key |-> "column_list", value |-> PyStr("source")]>>),
      Expectation(ROW_COUNT_CHECK, <<[key |-> "value", value |-> PyStr("source")]>>),
      Expectation(PK_CHECK, <<[key |-> "check_duplicates", value |-> PyBool(TRUE)]>>),
      Expectation(ROW_CHECK, <<[key |-> "threshold", value |-> PyInt(0)]>>)>>

\* Descriptors as main.py writes them, and one with a name the validator does
\* not support; kwargs with concrete values arise from the first call.
Descriptors ==
    {Expectation(SCHEMA_CHECK, <<[key |-> "column_list", value |-> PyStr("source")]>>),
     Expectation(ROW_COUNT_CHECK, <<[key |-> "value", value |-> PyStr("source")]>>),
     Expectation(PK_CHECK, <<[key |-> "check_duplicates", value |-> PyBool(TRUE)]>>),
     Expectation(UNSUPPORTED_CHECK, <<[key |-> "column", value |-> PyStr("id")]>>)}

ExpectationLists == SeqsUpTo(Descriptors, MaxExpectations)

\* The standard checks read only the column lists and the row counts, so the
\* directly driven calls take one frame per column list and row count.
ShapeFrames ==
    {df \in DataFrames :
        \A i \in DOMAIN df.rows : \A c \in ToSet(df.columns) :
            df.rows[i][c] = IF c = PRIMARY_KEY THEN 1 ELSE 100}

(***************************************************************************)
(* State machine.                                                          *)
(***************************************************************************)
Init ==
    /\ pc = "idle"
    /\ caller = "none"
    /\ source_data = NoFrame
    /\ target_data = NoFrame
    /\ config = <<>>
    /\ expectations = <<>>
    /\ executed = <<>>
    /\ standard_results = <<>>
    /\ primary_key_results = NotCalled
    /\ row_comparison_results = NotCalled
    /\ custom_results = <<>>
    /\ raised = "none"
    /\ exit_code = -1

\* A direct call of apply_standard_expectations_to_datasets.
ApplyStandard ==
    /\ pc = "idle"
    /\ \E validator \in ShapeFrames, exps \in ExpectationLists, target \in ShapeFrames :
          /\ LET r == apply_standard_expectations_to_datasets(validator, exps, target)
             IN  /\ expectations' = r.expectations
                 /\ executed' = r.executed
                 /\ standard_results' = r.results
          /\ config' = exps
          /\ pc' = "standard_returned"
          /\ caller' = "direct"
          /\ source_data' = validator
          /\ target_data' = target
          /\ UNCHANGED <<primary_key_results, row_comparison_results, custom_results,
                         raised, exit_code>>

\* A second call with the same validator and the same descriptor list object.
ApplyStandardAgain ==
    /\ pc = "standard_returned"
    /\ \E target \in ShapeFrames :
          /\ LET r == apply_standard_expectations_to_datasets(source_data, expectations, target)
             IN  /\ expectations' = r.expectations
                 /\ executed' = r.executed
                 /\ standard_results' = r.results
          /\ pc' = "standard_returned_again"
          /\ target_data' = target
          /\ UNCHANGED <<caller, source_data, config, primary_key_results,
                         row_comparison_results,
                         custom_results, raised, exit_code>>

\* Mutant of PrimaryKeysFailed: the early return is never taken.
PrimaryKeysFailedIgnored(results) == FALSE

\* not primary_key_results["custom_expect_primary_keys_to_match"]["success"]
PrimaryKeysFailed(results) == ~Get(Get(results, PK_CHECK), "success")

\* apply_custom_expectations_to_datasets up to its early return; an exception
\* leaves through the caller, and main.py catches nothing.
CustomPrimaryKeys(source, target, who, done) ==
    LET r == compare_primary_keys_between_datasets(source, target, PRIMARY_KEY)
    IN  /\ primary_key_results' = r
        /\ executed' = Append(done, PK_CHECK)
        /\ caller' = who
        /\ source_data' = source
        /\ target_data' = target
        /\ row_comparison_results' = NotCalled
        /\ IF r.raised # "none"
           THEN /\ raised' = r.raised
                /\ custom_results' = <<>>
                /\ pc' = IF who = "main" THEN "exited" ELSE "raised"
                /\ exit_code' = IF who = "main" THEN 1 ELSE exit_code
           ELSE /\ raised' = raised
                /\ custom_results' = Update(<<>>, r.value)
                /\ pc' = IF PrimaryKeysFailed(r.value) THEN "custom_returned"
                         ELSE "custom_rows"
                /\ exit_code' = exit_code

\* A direct call of apply_custom_expectations_to_datasets.
ApplyCustom ==
    /\ pc = "idle"
    /\ \E source \in DataFrames, target \in DataFrames :
          CustomPrimaryKeys(source, target, "direct", <<>>)
    /\ UNCHANGED <<config, expectations, standard_results>>

\* apply_custom_expectations_to_datasets after the primary keys matched.
ApplyCustomRowValues ==
    /\ pc = "custom_rows"
    /\ LET r == compare_row_values_between_datasets(source_data, target_data, PRIMARY_KEY)
       IN  /\ row_comparison_results' = r
           /\ executed' = Append(executed, ROW_CHECK)
           /\ IF r.raised # "none"
              THEN /\ raised' = r.raised
                   /\ custom_results' = custom_results
                   /\ pc' = IF caller = "main" THEN "exited" ELSE "raised"
                   /\ exit_code' = IF caller = "main" THEN 1 ELSE exit_code
              ELSE /\ raised' = raised
                   /\ custom_results' = Put(custom_results, ROW_CHECK, r.value)
                   /\ pc' = "custom_returned"
                   /\ exit_code' = exit_code
    /\ UNCHANGED <<caller, source_data, target_data, config, expectations,
                   standard_results, primary_key_results>>

\* main.py: the standard checks and the first exit.
MainStandard ==
    /\ pc = "idle"
    /\ \E source \in DataFrames, target \in DataFrames :
          /\ LET r == apply_standard_expectations_to_datasets(source, Config, target)
                 ok == all_expectations_successful(r.results)
             IN  /\ expectations' = r.expectations
                 /\ executed' = r.executed
                 /\ standard_results' = r.results
                 /\ IF ok.raised # "none"
                    THEN raised' = ok.raised /\ pc' = "exited" /\ exit_code' = 1
                    ELSE IF ~ok.value
                    THEN raised' = raised /\ pc' = "exited" /\ exit_code' = 1
                    ELSE raised' = raised /\ pc' = "main_custom" /\ exit_code' = exit_code
          /\ config' = Config
          /\ caller' = "main"
          /\ source_data' = source
          /\ target_data' = target
          /\ UNCHANGED <<primary_key_results, row_comparison_results, custom_results>>

\* main.py: the call of apply_custom_expectations_to_datasets.
MainCustom ==
    /\ pc = "main_custom"
    /\ CustomPrimaryKeys(source_data, target_data, "main", executed)
    /\ UNCHANGED <<config, expectations, standard_results>>

\* main.py: the second exit, or the end of the script.
MainCheckCustom ==
    /\ pc = "custom_returned"
    /\ caller = "main"
    /\ LET ok == all_expectations_successful(custom_results)
       IN  IF ok.raised # "none"
           THEN raised' = ok.raised /\ exit_code' = 1
           ELSE IF ~ok.value
           THEN raised' = raised /\ exit_code' = 1
           ELSE raised' = raised /\ exit_code' = 0
    /\ pc' = "exited"
    /\ UNCHANGED <<caller, source_data, target_data, config, expectations, executed,
                   standard_results, primary_key_results, row_comparison_results,
                   custom_results>>

Next ==
    \/ ApplyStandard
    \/ ApplyStandardAgain
    \/ ApplyCustom
    \/ ApplyCustomRowValues
    \/ MainStandard
    \/ MainCustom
    \/ MainCheckCustom

Spec == Init /\ [][Next]_vars

(***************************************************************************)
(* Vocabulary of the properties: what the inputs of the current call are.  *)
(***************************************************************************)
KeyList(df) == [i \in 1..Len(df.rows) |-> df.rows[i][PRIMARY_KEY]]

KeySet(df) == {df.rows[i][PRIMARY_KEY] : i \in 1..Len(df.rows)}

Occurrences(s, k) == Cardinality({i \in DOMAIN s : s[i] = k})

HasRepeatedKey(df) == \E k \in KeySet(df) : Occurrences(KeyList(df), k) > 1

RepeatedKeys(df) == SelectSeq(KeyList(df), LAMBDA k : Occurrences(KeyList(df), k) > 1)

PrimaryKeysReturned == primary_key_results.raised = "none"

PrimaryKeyResult == Get(primary_key_results.value, PK_CHECK)

RowValuesReturned == row_comparison_results.raised = "none"

RowValueResult == Get(row_comparison_results.value, ROW_CHECK)

CommonColumns ==
    {c \in ToSet(source_data.columns) \cap ToSet(target_data.columns) : c # PRIMARY_KEY}

TargetRow(k) ==
    target_data.rows[CHOOSE j \in 1..Len(target_data.rows) :
                        target_data.rows[j][PRIMARY_KEY] = k]

DifferingRows(c) ==
    SelectSeq(source_data.rows, LAMBDA r : r[c] # TargetRow(r[PRIMARY_KEY])[c])

KeysUsable ==
    /\ ~HasRepeatedKey(source_data)
    /\ ~HasRepeatedKey(target_data)
    /\ KeySet(source_data) = KeySet(target_data)

Succeeded(result) == Has(result, "success") /\ Get(result, "success")

StandardFailed ==
    \E i \in DOMAIN standard_results : ~Succeeded(standard_results[i].value)

CustomStarted == PK_CHECK \in ToSet(executed) \/ ROW_CHECK \in ToSet(executed)

(***************************************************************************)
(* Properties.                                                             *)
(***************************************************************************)

\* C1: with no duplicated key on either side, the primary-key check fails
\* exactly when the two key sets differ, the failure carrying
\* missing_in_target = source keys minus target keys and missing_in_source =
\* target keys minus source keys; with identical key sets it succeeds with no
\* payload.
C1_KeySetsCompared ==
    (/\ primary_key_results.raised # "not_called"
     /\ ~HasRepeatedKey(source_data)
     /\ ~HasRepeatedKey(target_data))
    => /\ PrimaryKeysReturned
       /\ IF KeySet(source_data) = KeySet(target_data)
          THEN /\ Succeeded(PrimaryKeyResult)
               /\ ~Has(PrimaryKeyResult, "detailed_errors")
          ELSE /\ ~Succeeded(PrimaryKeyResult)
               /\ Has(PrimaryKeyResult, "detailed_errors")
               /\ LET detailed_errors == Get(PrimaryKeyResult, "detailed_errors")
                  IN  /\ Has(detailed_errors, "missing_in_target")
                      /\ Has(detailed_errors, "missing_in_source")
                      /\ ToSet(Get(detailed_errors, "missing_in_target"))
                            = KeySet(source_data) \ KeySet(target_data)
                      /\ ToSet(Get(detailed_errors, "missing_in_source"))
                            = KeySet(target_data) \ KeySet(source_data)

C3_EveryDifferingColumnReported ==
    (RowValuesReturned /\ KeysUsable)
    => \A c \in CommonColumns :
          DifferingRows(c) # <<>>
          => /\ Has(RowValueResult, "detailed_errors")
             /\ Has(Get(RowValueResult, "detailed_errors"), c)
             /\ LET entry == Get(Get(RowValueResult, "detailed_errors"), c)
                    rows == DifferingRows(c)
                IN  /\ Get(entry, "row_indices")
                         = [i \in 1..Len(rows) |-> rows[i][PRIMARY_KEY]]
                    /\ Get(entry, "source_data_values")
                         = [i \in 1..Len(rows) |-> rows[i][c]]
                    /\ Get(entry, "target_data_values")
                         = [i \in 1..Len(rows) |-> TargetRow(rows[i][PRIMARY_KEY])[c]]

\* C4: in apply_custom_expectations_to_datasets the primary-key check runs
\* before the row-value comparison, and once it has returned success = false
\* the row-value comparison is not executed and the results mapping holds only
\* the primary-key entry.
C4_FailedPrimaryKeysSkipRowValues ==
    /\ \A i \in DOMAIN executed :
          executed[i] = ROW_CHECK => \E j \in 1..(i - 1) : executed[j] = PK_CHECK
    /\ (PrimaryKeysReturned /\ ~Succeeded(PrimaryKeyResult))
       => /\ ROW_CHECK \notin ToSet(executed)
          /\ row_comparison_results = NotCalled
          /\ pc \in {"custom_returned", "exited"}
          /\ DictKeys(custom_results) = {PK_CHECK}

\* C4 witness: a direct call has returned after a failed primary-key check.
C4_Witness ==
    /\ pc = "custom_returned"
    /\ caller = "direct"
    /\ PrimaryKeysReturned
    /\ ~Succeeded(PrimaryKeyResult)

\* C5: the row-value comparison is executed only with no duplicated key in
\* either dataset and equal key sets.
C5_RowValuesPrecondition ==
    ROW_CHECK \in ToSet(executed) => KeysUsable

\* C6: compare_primary_keys_between_datasets and
\* apply_custom_expectations_to_datasets end by returning a results mapping,
\* never by raising.
C6_NeverRaises ==
    /\ primary_key_results.raised \in {"not_called", "none"}
    /\ row_comparison_results.raised \in {"not_called", "none"}

\* C7: every check result produced by the schema, row-count, primary-key and
\* row-value checks has detailed_errors if and only if its success is false.
C7_DetailedErrorsIffFailed ==
    /\ \A i \in DOMAIN standard_results :
          LET result == standard_results[i].value
          IN  Has(result, "success")
              /\ (Has(result, "detailed_errors") <=> ~Get(result, "success"))
    /\ PrimaryKeysReturned
       => /\ Has(PrimaryKeyResult, "success")
          /\ Has(PrimaryKeyResult, "detailed_errors") <=> ~Get(PrimaryKeyResult, "success")
    /\ RowValuesReturned
       => /\ Has(RowValueResult, "success")
          /\ Has(RowValueResult, "detailed_errors") <=> ~Get(RowValueResult, "success")

\* C7 witness: a run of main.py in which the standard checks and the
\* primary-key check succeeded and the row-value comparison failed.
C7_Witness ==
    /\ caller = "main"
    /\ standard_results # <<>>
    /\ PrimaryKeysReturned
    /\ RowValuesReturned
    /\ ~Get(RowValueResult, "success")

\* C8: the value stored under custom_expect_row_values_to_match is itself a
\* check result with a boolean success, so that all_expectations_successful
\* applies to the mapping and is true iff every check succeeded.
C8_RowValuesEntryIsCheckResult ==
    Has(custom_results, ROW_CHECK)
    => /\ Has(Get(custom_results, ROW_CHECK), "success")
       /\ all_expectations_successful(custom_results).raised = "none"
       /\ all_expectations_successful(custom_results).value
             = (Succeeded(PrimaryKeyResult) /\ Succeeded(RowValueResult))

\* C9: main.py runs the standard checks first and a failure of one ends the
\* run with a non-zero exit before any custom check starts; otherwise the
\* custom checks run, primary key then row values, and a failure of one ends
\* the run with a non-zero exit; if every check succeeds the exit status is 0.
C9_ExitContract ==
    caller = "main"
    => /\ StandardFailed => (pc = "exited" /\ exit_code # 0 /\ ~CustomStarted)
       /\ \A i \in DOMAIN executed :
             executed[i] = ROW_CHECK => \E j \in 1..(i - 1) : executed[j] = PK_CHECK
       /\ (/\ pc = "exited"
           /\ \/ (PrimaryKeysReturned /\ ~Succeeded(PrimaryKeyResult))
              \/ (RowValuesReturned /\ ~Succeeded(RowValueResult)))
          => exit_code # 0
       /\ (/\ pc = "exited"
           /\ ~StandardFailed
           /\ PrimaryKeysReturned /\ Succeeded(PrimaryKeyResult)
           /\ RowValuesReturned /\ Succeeded(RowValueResult))
          => exit_code = 0

\* C10: apply_standard_expectations_to_datasets dispatches only the two
\* supported standard checks; descriptors with a custom_ name or an
\* unrecognized name are skipped without raising, so the keys of the returned
\* mapping are exactly the supported names that appear in the list.
C10_OnlySupportedStandardChecks ==
    LET listed == {Get(expectations[i], "expectation_type") : i \in DOMAIN expectations}
    IN  /\ DictKeys(standard_results) = listed \cap {SCHEMA_CHECK, ROW_COUNT_CHECK}
        /\ pc \in {"standard_returned", "standard_returned_again"}
           => /\ raised = "none"
              /\ ToSet(executed) = listed \cap {SCHEMA_CHECK, ROW_COUNT_CHECK}

\* C10 witness: the list passed held a supported, a custom and an unrecognized
\* name.
C10_Witness ==
    /\ pc = "standard_returned"
    /\ \E i, j, k \in DOMAIN expectations :
          /\ Get(expectations[i], "expectation_type") = ROW_COUNT_CHECK
          /\ Get(expectations[j], "expectation_type") = PK_CHECK
          /\ Get(expectations[k], "expectation_type") = UNSUPPORTED_CHECK
    /\ DictKeys(standard_results) = {ROW_COUNT_CHECK}

\* The descriptor at position i of the list carries the "source" sentinel
\* under the parameter of its check.
CarriesSentinel(exps, i, expectation_type, parameter) ==
    /\ Get(exps[i], "expectation_type") = expectation_type
    /\ Has(Get(exps[i], "kwargs"), parameter)
    /\ Get(Get(exps[i], "kwargs"), parameter) = PyStr("source")

\* C11: apply_standard_expectations_to_datasets leaves the caller's
\* descriptors unchanged, a parameter that carried the "source" sentinel still
\* carrying it after the call, so that every call on the same list checks the
\* source against the column list and the row count of that call's own target.
C11_DescriptorsUnchanged ==
    /\ expectations = config
    /\ standard_results # <<>>
       => \A i \in DOMAIN config :
             /\ CarriesSentinel(config, i, SCHEMA_CHECK, "column_list")
                => (Succeeded(Get(standard_results, SCHEMA_CHECK))
                       <=> source_data.columns = target_data.columns)
             /\ CarriesSentinel(config, i, ROW_COUNT_CHECK, "value")
                => (Succeeded(Get(standard_results, ROW_COUNT_CHECK))
                       <=> Len(source_data.rows) = Len(target_data.rows))

====
